---- MODULE Spec2Model ----
(***************************************************************************)
(* Model of src/api.py, the FastAPI server of the NesVentory Gemini        *)
(* plugin: the process lifecycle (lifespan), the three AI-backed routes,   *)
(* the meta routes and the frontend catch-all.                             *)
(*                                                                         *)
(* Python strings that the code inspects character by character (content   *)
(* types, URL paths) are sequences of one-character strings, so that       *)
(* str.startswith is computed.  JSON values, which are also the Python     *)
(* values json.loads returns, are tagged records [t, v].                   *)
(***************************************************************************)
EXTENDS Integers, Sequences, FiniteSets, TLC

VARIABLES
    phase,          \* "init" | "running" | "stopped": position of lifespan
    api_key,        \* os.environ.get("GEMINI_API_KEY"): None, "" or a key
    configure_raised, \* whether the try block of lifespan raised
    gemini_model,   \* the module-level handle: None or Model
    index_exists,   \* whether DIST_PATH / "index.html" exists
    pc,             \* "idle" | "responded": the request in flight, if any
    req,            \* the request being answered
    call,           \* what generate_content did for this request, NoCall if not reached
    resp,           \* the response the handler produced
    last_failure    \* history: route, cause and error code of the latest 500 response

vars == <<phase, api_key, configure_raised, gemini_model, index_exists, pc, req, call, resp,
         last_failure>>

(***************************************************************************)
(* Bounds.                                                                 *)
(***************************************************************************)
\* most elements of an "items" array the provider returns
MaxItems == 2
\* the text lengths drawn lie within Slack of the truncation limit
Slack == 1

(***************************************************************************)
(* Python values.                                                          *)
(***************************************************************************)
None == "None"
Model == "GenerativeModel"

Min(a, b) == IF a <= b THEN a ELSE b

\* str.startswith(prefix)
StartsWith(s, p) == Len(p) <= Len(s) /\ SubSeq(s, 1, Len(p)) = p

\* JSON values as json.loads returns them (null is Python's None)
JNull == [t |-> "null", v |-> "null"]
JStr(s) == [t |-> "str", v |-> s]
\* a number, by its literal
JNum(s) == [t |-> "num", v |-> s]
JBool(b) == [t |-> "bool", v |-> IF b THEN "true" ELSE "false"]
JList(q) == [t |-> "list", v |-> q]
\* an object: a function from its keys to JSON values
JObj(f) == [t |-> "obj", v |-> f]

\* a missing key reads as the empty string, whatever the default
Get_blank(d, k, default) == IF k \in DOMAIN d.v THEN d.v[k] ELSE JStr("")

\* dict.get(key, default)
Get(d, k, default) == IF k \in DOMAIN d.v THEN d.v[k] ELSE default

(***************************************************************************)
(* Uploads.                                                                *)
(***************************************************************************)
s_image == <<"i", "m", "a", "g", "e", "/">>
ct_png == s_image \o <<"p", "n", "g">>
ct_text == <<"t", "e", "x", "t", "/", "p", "l", "a", "i", "n">>
ct_upper == <<"I", "M", "A", "G", "E", "/", "P", "N", "G">>
ct_noslash == <<"i", "m", "a", "g", "e">>

\* UploadFile.content_type: None when the part declares none, else a string
NoContentType == [present |-> FALSE, text |-> <<>>]
ContentType(s) == [present |-> TRUE, text |-> s]
ContentTypes ==
    {NoContentType} \cup
    {ContentType(s) : s \in {<<>>, ct_text, ct_upper, ct_noslash, s_image, ct_png}}

\* the first bytes by which PIL recognises a format
PngSignature == <<137, 80, 78, 71>>
JpegSignature == <<255, 216, 255>>
Bodies == {<<>>, <<80, 78, 71>>, PngSignature, JpegSignature \o <<224>>}

\* an upload: its declared type, its bytes, and whether file.read() succeeds
Files == [content_type : ContentTypes, data : Bodies, readable : BOOLEAN]

\* Image.open(BytesIO(image_data)) returns an image, or raises
Image_open(data) ==
    IF StartsWith(data, PngSignature) \/ StartsWith(data, JpegSignature)
    THEN "image" ELSE "UnidentifiedImageError"

\* not image_data (or len(image_data) == 0)
EmptyUpload(data) == data = <<>>

\* only the presence of a content type is checked, not its prefix
InvalidFileType_presence(file) ==
    \/ ~file.content_type.present
    \/ file.content_type.text = <<>>

\* not file.content_type or not file.content_type.startswith("image/")
InvalidFileType(file) ==
    \/ ~file.content_type.present
    \/ file.content_type.text = <<>>
    \/ ~StartsWith(file.content_type.text, s_image)

(***************************************************************************)
(* What generate_content does when it is called: it raises, or it returns  *)
(* a response whose text has a length and denotes a JSON document, or      *)
(* denotes none (json.loads raises JSONDecodeError).                       *)
(***************************************************************************)
\* the slice bound of result_text[:500]
RawLimit == 500

Invalid == [t |-> "invalid", v |-> "invalid"]
NoCall == [kind |-> "none", doc |-> JNull, len |-> 0]
Raises == [kind |-> "raises", doc |-> JNull, len |-> 0]
Text(doc, n) == [kind |-> "text", doc |-> doc, len |-> n]

\* the text is passed on whole
Slice_whole(text, n) == [of |-> text, chars |-> text.len]

\* text[:n], as the text it is cut from and the number of characters kept
Slice(text, n) == [of |-> text, chars |-> Min(text.len, n)]

TextLens == (RawLimit - Slack) .. (RawLimit + Slack)
\* malformed text can have any length, the empty text included
InvalidTexts == {Text(Invalid, n) : n \in {0, 3} \cup TextLens}
TextsOf(docs) == {Text(d, n) : d \in docs, n \in TextLens}

(***************************************************************************)
(* Responses.                                                              *)
(***************************************************************************)
\* HTTPException(detail={...}): a dict detail, or a bare string
Structured(error, message, error_code) ==
    [t |-> "dict", v |-> [error |-> error, message |-> message, error_code |-> error_code]]
Plain(s) == [t |-> "str", v |-> s]
NoDetail == [t |-> "none", v |-> "none"]
NoBody == [t |-> "none"]
NoPrompt == [template |-> "none", arg |-> None]

\* effects: the steps the handler performed, in order ("read", "decode",
\* "generate"); prompt: the prompt generate_content was called with
HTTPException(status, detail, effects, prompt) ==
    [status |-> status, kind |-> "error", detail |-> detail, body |-> NoBody,
     effects |-> effects, prompt |-> prompt]
Returned(kind, body, effects, prompt) ==
    [status |-> 200, kind |-> kind, detail |-> NoDetail, body |-> body,
     effects |-> effects, prompt |-> prompt]

\* the precondition check left out
Unconfigured_skipped(model) == FALSE

\* if not gemini_model
Unconfigured(model) == model = None

\* the error_code of a response's detail, "none" when the detail is not a dict
ErrorCode(r) == IF r.detail.t = "dict" THEN r.detail.v.error_code ELSE "none"

NotConfigured(message) ==
    HTTPException(503, Structured("Service unavailable", message, "GEMINI_NOT_CONFIGURED"),
                  <<>>, NoPrompt)

(***************************************************************************)
(* Response models: what the pydantic constructors accept.  A value is     *)
(* [ok, val]: ok is FALSE when the constructor raises ValidationError.     *)
(***************************************************************************)
NumericStrings == {"45.00"}
Rejected == [ok |-> FALSE, val |-> JNull]
Accepted(x) == [ok |-> TRUE, val |-> x]

\* str
AsStr(x) == IF x.t = "str" THEN Accepted(x) ELSE Rejected
\* Optional[str]
AsOptStr(x) == IF x.t \in {"str", "null"} THEN Accepted(x) ELSE Rejected
\* Optional[float]: a number, or a string float() parses
AsOptFloat(x) ==
    IF x.t \in {"num", "null"} THEN Accepted(x)
    ELSE IF x.t = "str" /\ x.v \in NumericStrings THEN Accepted(JNum(x.v))
    ELSE Rejected
\* Optional[dict]
AsOptDict(x) == IF x.t \in {"obj", "null"} THEN Accepted(x) ELSE Rejected
\* bool
AsBool(x) == IF x.t = "bool" THEN Accepted(x) ELSE Rejected

\* the model built from the validated arguments, or ValidationError
Construct(args) ==
    IF \A k \in DOMAIN args : args[k].ok
    THEN [exc |-> "none", val |-> [k \in DOMAIN args |-> args[k].val]]
    ELSE [exc |-> "ValidationError", val |-> NoBody]

ItemStrFields ==
    {"description", "brand", "item_number", "model_number", "retired_status", "estimation_date"}
ItemFloatFields == {"estimated_value", "confidence"}
ItemFields == {"name"} \cup ItemStrFields \cup ItemFloatFields

\* DetectedItem(name=item.get("name", "Unknown Item"), description=item.get("description"), ...)
DetectedItem(item) ==
    IF item.t # "obj" THEN [exc |-> "AttributeError", val |-> NoBody]
    ELSE Construct([k \in ItemFields |->
            IF k = "name" THEN AsStr(Get(item, "name", JStr("Unknown Item")))
            ELSE IF k \in ItemFloatFields THEN AsOptFloat(Get(item, k, JNull))
            ELSE AsOptStr(Get(item, k, JNull))])

\* for item in items: what the loop iterates over, or TypeError
Iterate(items) ==
    IF items.t = "list" THEN [exc |-> "none", val |-> items.v]
    ELSE IF items.t = "str" THEN
        \* the characters of the string, each a string (the loop stops at the first)
        [exc |-> "none", val |-> IF items.v = "" THEN <<>> ELSE <<JStr(items.v)>>]
    ELSE IF items.t = "obj" THEN
        \* the keys of the dict, each a string (the loop stops at the first)
        [exc |-> "none", val |-> IF DOMAIN items.v = {} THEN <<>> ELSE <<JStr("key")>>]
    ELSE [exc |-> "TypeError", val |-> <<>>]

(***************************************************************************)
(* POST /nesventory/identify/image                                         *)
(***************************************************************************)
IdentifyPrompt == [template |-> "identify", arg |-> None]
ImageEffects == <<"read", "decode", "generate">>

\* lines 305-338: decode the model text and build the item list; exc names
\* the exception that leaves the inner try, "none" when a response is returned
identify_decode(text) ==
    LET result_data == text.doc
        raw == Slice(text, RawLimit)
    IN  IF result_data.t = "invalid"
        THEN \* except json.JSONDecodeError
             [exc |-> "none", val |-> [items |-> <<>>, raw_response |-> raw]]
        ELSE IF result_data.t # "obj"
        THEN [exc |-> "AttributeError", val |-> NoBody]
        ELSE LET items == Iterate(Get(result_data, "items", JList(<<>>)))
                 built == [i \in 1..Len(items.val) |-> DetectedItem(items.val[i])]
             IN  IF items.exc # "none"
                 THEN [exc |-> items.exc, val |-> NoBody]
                 ELSE IF \E i \in 1..Len(built) : built[i].exc # "none"
                 THEN LET first == CHOOSE i \in 1..Len(built) :
                                     /\ built[i].exc # "none"
                                     /\ \A j \in 1..(i - 1) : built[j].exc = "none"
                      IN  [exc |-> built[first].exc, val |-> NoBody]
                 ELSE [exc |-> "none",
                       val |-> [items |-> [i \in 1..Len(built) |-> built[i].val],
                                raw_response |-> raw]]

identify_item_from_image(model, file, gen) ==
    IF Unconfigured(model)
    THEN NotConfigured("Gemini AI is not configured. Please set GEMINI_API_KEY environment variable.")
    ELSE IF InvalidFileType(file)
    THEN HTTPException(400, Structured("Invalid file type",
                                       "File type is not supported. Only image files are accepted.",
                                       "INVALID_FILE_TYPE"), <<>>, NoPrompt)
    ELSE IF ~file.readable
    THEN \* file.read() raises: the outer except Exception
         HTTPException(500, Structured("Image identification failed",
                                       "An unexpected error occurred: OSError",
                                       "UNEXPECTED_ERROR"), <<"read">>, NoPrompt)
    ELSE IF EmptyUpload(file.data)
    THEN HTTPException(400, Structured("Empty file", "The uploaded file is empty", "EMPTY_FILE"),
                       <<"read">>, NoPrompt)
    ELSE IF Image_open(file.data) # "image"
    THEN HTTPException(400, Structured("Invalid image data",
                                       "Unable to process image: UnidentifiedImageError",
                                       "INVALID_IMAGE_DATA"), <<"read", "decode">>, NoPrompt)
    ELSE LET decoded == IF gen.kind = "text" THEN identify_decode(gen)
                        ELSE [exc |-> "ProviderError", val |-> NoBody]
         IN  IF decoded.exc = "none"
             THEN Returned("ItemIdentificationResponse", decoded.val, ImageEffects, IdentifyPrompt)
             ELSE \* the inner except Exception
                  HTTPException(500, Structured("AI processing failed",
                                                "Failed to process image with Gemini: " \o decoded.exc,
                                                "GEMINI_API_ERROR"), ImageEffects, IdentifyPrompt)

(***************************************************************************)
(* POST /parse-data-tag                                                    *)
(***************************************************************************)
DataTagPrompt == [template |-> "data_tag", arg |-> None]
DataTagStrFields ==
    {"manufacturer", "brand", "model_number", "serial_number", "production_date"}
DataTagFields == DataTagStrFields \cup {"estimated_value", "additional_info"}

\* adds raw_response=text[:500] to the validated fields
WithRaw(built, text) ==
    IF built.exc # "none" THEN built
    ELSE [exc |-> "none",
          val |-> [k \in DOMAIN built.val \cup {"raw_response"} |->
                     IF k = "raw_response" THEN Slice(text, RawLimit) ELSE built.val[k]]]

\* lines 442-454: json.loads(response.text) and DataTagResponse(...)
data_tag_decode(text) ==
    LET result_data == text.doc
    IN  IF result_data.t = "invalid" THEN [exc |-> "JSONDecodeError", val |-> NoBody]
        ELSE IF result_data.t # "obj" THEN [exc |-> "AttributeError", val |-> NoBody]
        ELSE WithRaw(Construct([k \in DataTagFields |->
                        IF k = "estimated_value" THEN AsOptFloat(Get(result_data, k, JNull))
                        ELSE IF k = "additional_info" THEN AsOptDict(Get(result_data, k, JNull))
                        ELSE AsOptStr(Get(result_data, k, JNull))]), text)

ParseError(exc, effects, prompt) ==
    HTTPException(500, Structured("Parsing failed", exc, "PARSE_ERROR"), effects, prompt)

parse_data_tag(model, file, gen) ==
    IF Unconfigured(model)
    THEN NotConfigured("Gemini AI is not configured")
    ELSE IF InvalidFileType(file)
    THEN HTTPException(400, Structured("Invalid file type", "Only image files are accepted",
                                       "INVALID_FILE_TYPE"), <<>>, NoPrompt)
    ELSE IF ~file.readable
    THEN ParseError("OSError", <<"read">>, NoPrompt)
    ELSE IF EmptyUpload(file.data)
    THEN HTTPException(400, Plain("Empty file"), <<"read">>, NoPrompt)
    ELSE IF Image_open(file.data) # "image"
    THEN ParseError(Image_open(file.data), <<"read", "decode">>, NoPrompt)
    ELSE LET decoded == IF gen.kind = "text" THEN data_tag_decode(gen)
                        ELSE [exc |-> "ProviderError", val |-> NoBody]
         IN  IF decoded.exc = "none"
             THEN Returned("DataTagResponse", decoded.val, ImageEffects, DataTagPrompt)
             ELSE ParseError(decoded.exc, ImageEffects, DataTagPrompt)

(***************************************************************************)
(* POST /lookup-barcode                                                    *)
(***************************************************************************)
BarcodeStrFields ==
    {"name", "description", "brand", "model_number", "estimation_date", "category"}
BarcodeFields == {"found", "estimated_value"} \cup BarcodeStrFields

\* lines 523-536: json.loads(response.text) and BarcodeResponse(...)
barcode_decode(text) ==
    LET result_data == text.doc
    IN  IF result_data.t = "invalid" THEN [exc |-> "JSONDecodeError", val |-> NoBody]
        ELSE IF result_data.t # "obj" THEN [exc |-> "AttributeError", val |-> NoBody]
        ELSE WithRaw(Construct([k \in BarcodeFields |->
                        IF k = "found" THEN AsBool(Get(result_data, k, JBool(FALSE)))
                        ELSE IF k = "estimated_value" THEN AsOptFloat(Get(result_data, k, JNull))
                        ELSE AsOptStr(Get(result_data, k, JNull))]), text)

lookup_barcode(model, request, gen) ==
    IF Unconfigured(model)
    THEN NotConfigured("Gemini AI is not configured")
    ELSE LET \* barcode = request.barcode or request.upc
             barcode == IF request.barcode # "" THEN request.barcode ELSE request.upc
             prompt == [template |-> "lookup_barcode", arg |-> barcode]
             decoded == IF gen.kind = "text" THEN barcode_decode(gen)
                        ELSE [exc |-> "ProviderError", val |-> NoBody]
         IN  IF decoded.exc = "none"
             THEN Returned("BarcodeResponse", decoded.val, <<"generate">>, prompt)
             ELSE HTTPException(500, Structured("Lookup failed", decoded.exc, "LOOKUP_ERROR"),
                                <<"generate">>, prompt)

(***************************************************************************)
(* GET routes.                                                             *)
(***************************************************************************)
p_health == <<"h", "e", "a", "l", "t", "h">>
p_nesventory == <<"n", "e", "s", "v", "e", "n", "t", "o", "r", "y">>
p_parse_data_tag == <<"p", "a", "r", "s", "e", "-", "d", "a", "t", "a", "-", "t", "a", "g">>
p_lookup_barcode == <<"l", "o", "o", "k", "u", "p", "-", "b", "a", "r", "c", "o", "d", "e">>
p_docs == <<"d", "o", "c", "s">>
p_redoc == <<"r", "e", "d", "o", "c">>
p_openapi_json == <<"o", "p", "e", "n", "a", "p", "i", ".", "j", "s", "o", "n">>
p_api == <<"a", "p", "i">>

api_prefixes ==
    {p_health, p_nesventory, p_parse_data_tag, p_lookup_barcode, p_docs, p_redoc,
     p_openapi_json, p_api}

\* GET paths (without the leading "/") that a route registered before the
\* catch-all answers: /, /api, /health and FastAPI's /docs, /redoc, /openapi.json
SpecificGetRoutes == {<<>>, p_api, p_health, p_docs, p_redoc, p_openapi_json}

Paths ==
    SpecificGetRoutes \cup
    {p_health \o <<"z">>, p_health \o <<"/">>, p_nesventory,
     p_nesventory \o <<"/", "x">>, p_parse_data_tag, p_lookup_barcode \o <<"/", "1">>,
     p_docs \o <<"/", "x">>, p_redoc \o <<"2">>, p_openapi_json \o <<"l">>,
     p_api \o <<"/", "v", "1">>, p_api \o <<"a", "r", "y">>,
     <<"a", "b", "o", "u", "t">>, <<"h", "e", "a", "l">>, <<"x", "/">> \o p_health,
     <<"H", "e", "a", "l", "t", "h">>, <<"d", "o", "c">>, <<"a", "p">>,
     <<"o", "p", "e", "n", "a", "p", "i">>, <<"i", "t", "e", "m", "s", "/", "a", "p", "i">>}

ApiInfoBody == [message |-> "NesVentory Gemini Plugin API", version |-> "1.0.0"]
IndexHtml == [file |-> "dist/index.html"]

root(index) ==
    IF index THEN Returned("FileResponse", IndexHtml, <<>>, NoPrompt)
    ELSE Returned("json", ApiInfoBody, <<>>, NoPrompt)

api_info == Returned("json", ApiInfoBody, <<>>, NoPrompt)

health_check(model) ==
    Returned("HealthResponse",
             [status |-> "healthy", version |-> "1.0.0", gemini_configured |-> model # None],
             <<>>, NoPrompt)

\* only the prefixes themselves are excluded, not the paths under them
IsApiPath_exact(full_path) == full_path \in api_prefixes

\* full_path.startswith(api_prefixes)
IsApiPath(full_path) == \E p \in api_prefixes : StartsWith(full_path, p)

serve_frontend(full_path, index) ==
    IF IsApiPath(full_path)
    THEN HTTPException(404, Plain("Not found"), <<>>, NoPrompt)
    ELSE IF index
    THEN Returned("FileResponse", IndexHtml, <<>>, NoPrompt)
    ELSE HTTPException(404, Plain("Frontend not built"), <<>>, NoPrompt)

(***************************************************************************)
(* The inputs drawn: model replies per route, barcode requests.            *)
(***************************************************************************)
EmptyDict == [k \in {} |-> JNull]

it_tavern == JObj([name |-> JStr("Tavern"), confidence |-> JNum("0.9")])
it_nameless == JObj([brand |-> JStr("Department 56")])
it_full ==
    JObj([name |-> JStr("Mill"), description |-> JStr(""), brand |-> JStr("Department 56"),
          item_number |-> JStr("5544-0"), model_number |-> JNull,
          retired_status |-> JStr("Retired"), estimated_value |-> JNum("0"),
          confidence |-> JNum("0.92"), estimation_date |-> JStr("12/16/24"),
          color |-> JStr("red")])
it_null_name == JObj([name |-> JNull])
it_bad_value == JObj([name |-> JStr("Inn"), estimated_value |-> JStr("abc")])
it_not_object == JStr("Tavern")
ItemValues == {it_tavern, it_nameless, it_full, it_null_name, it_bad_value, it_not_object}
ItemSeqs == UNION {[1..n -> ItemValues] : n \in 0..MaxItems}

IdentifyDocs ==
    {JObj([items |-> JList(q)]) : q \in ItemSeqs} \cup
    {JObj(EmptyDict), JObj([items |-> JList(<<it_tavern>>), note |-> JStr("x")]),
     JObj([items |-> JNull]), JObj([items |-> JStr("")]), JObj([items |-> JStr("ab")]),
     JObj([items |-> JObj(EmptyDict)]), JList(<<>>), JNull, JNum("7")}

dt_full ==
    JObj([manufacturer |-> JStr("Acme"), brand |-> JStr("Acme Pro"),
          model_number |-> JStr("X-1"), serial_number |-> JStr(""),
          production_date |-> JNull, estimated_value |-> JNum("0"),
          additional_info |-> JObj([voltage |-> JStr("120V")]), country |-> JStr("USA")])
dt_partial == JObj([manufacturer |-> JStr("Acme")])
dt_coerced == JObj([estimated_value |-> JStr("45.00")])
dt_bad_info == JObj([additional_info |-> JStr("none")])
DataTagDocs == {dt_full, dt_partial, JObj(EmptyDict), dt_coerced, dt_bad_info, JList(<<>>)}

bc_not_found == JObj([found |-> JBool(FALSE)])
bc_full ==
    JObj([found |-> JBool(TRUE), name |-> JStr("Widget"), description |-> JStr(""),
          brand |-> JStr("Acme"), model_number |-> JNull, estimated_value |-> JNum("12.5"),
          estimation_date |-> JStr("12/16/24"), category |-> JStr("Toys"),
          upc |-> JStr("012345678905")])
bc_no_flag == JObj([name |-> JStr("Widget")])
bc_null_flag == JObj([found |-> JNull])
BarcodeDocs == {bc_not_found, bc_full, bc_no_flag, JObj(EmptyDict), bc_null_flag, JNum("7")}

\* BarcodeRequest: barcode is a required string, upc an optional one
BarcodeRequests == [barcode : {"012345678905", ""}, upc : {None, "042100005264"}]

Outcomes(docs) == {Raises} \cup InvalidTexts \cup TextsOf(docs)

(***************************************************************************)
(* The state machine.                                                      *)
(***************************************************************************)
NoFile == [content_type |-> NoContentType, data |-> <<>>, readable |-> FALSE]
NoBarcode == [barcode |-> "", upc |-> None]
NoReq == [route |-> "none", file |-> NoFile, request |-> NoBarcode, full_path |-> <<>>]
NoResp == [status |-> 0, kind |-> "none", detail |-> NoDetail, body |-> NoBody,
           effects |-> <<>>, prompt |-> NoPrompt]
NoFailure == [route |-> "none", provider |-> FALSE, error_code |-> "none"]

Request(route, file, request, full_path) ==
    [route |-> route, file |-> file, request |-> request, full_path |-> full_path]

Calls(r) == Cardinality({i \in 1..Len(r.effects) : r.effects[i] = "generate"})

Init ==
    /\ phase = "init"
    /\ api_key \in {None, "", "key"}
    /\ configure_raised = FALSE
    /\ gemini_model = None
    /\ index_exists \in BOOLEAN
    /\ pc = "idle"
    /\ req = NoReq
    /\ call = NoCall
    /\ resp = NoResp
    /\ last_failure = NoFailure

\* if api_key: an unset variable and an empty one both count as not set
KeySet(key) == key \notin {None, ""}

\* the except branch does not reset the handle
configure_uncontained(key, raises) == IF KeySet(key) THEN Model ELSE None

\* lines 103-112: the handle lifespan leaves behind, given the key and whether
\* genai.configure or GenerativeModel raises
configure(key, raises) == IF KeySet(key) /\ ~raises THEN Model ELSE None

\* lifespan, up to the yield
Startup ==
    /\ phase = "init"
    /\ \E raises \in (IF KeySet(api_key) THEN BOOLEAN ELSE {FALSE}) :
         /\ gemini_model' = configure(api_key, raises)
         /\ configure_raised' = raises
    /\ phase' = "running"
    /\ UNCHANGED <<api_key, index_exists, pc, req, call, resp, last_failure>>

\* lifespan, after the yield
Shutdown ==
    /\ phase = "running"
    /\ pc = "idle"
    /\ gemini_model' = None
    /\ phase' = "stopped"
    /\ UNCHANGED <<api_key, configure_raised, index_exists, pc, req, call, resp, last_failure>>

\* the response r to request q, produced after generate_content did c
Respond(q, c, r) ==
    /\ req' = q
    /\ call' = c
    /\ resp' = r
    /\ pc' = "responded"
    /\ UNCHANGED <<phase, api_key, configure_raised, gemini_model, index_exists, last_failure>>

\* a handler run on request q; H maps what generate_content does to the
\* handler's response, and the outcome is drawn only when the handler
\* reaches the call
Serve(q, H, outcomes) ==
    /\ phase = "running"
    /\ pc = "idle"
    /\ IF Calls(H[Raises]) = 0
       THEN Respond(q, NoCall, H[Raises])
       ELSE \E gen \in outcomes : Respond(q, gen, H[gen])

IdentifyImage ==
    \E file \in Files :
        Serve(Request("identify", file, NoBarcode, <<>>),
              [gen \in Outcomes(IdentifyDocs) |-> identify_item_from_image(gemini_model, file, gen)],
              Outcomes(IdentifyDocs))

ParseDataTag ==
    \E file \in Files :
        Serve(Request("data_tag", file, NoBarcode, <<>>),
              [gen \in Outcomes(DataTagDocs) |-> parse_data_tag(gemini_model, file, gen)],
              Outcomes(DataTagDocs))

LookupBarcode ==
    \E request \in BarcodeRequests :
        Serve(Request("barcode", NoFile, request, <<>>),
              [gen \in Outcomes(BarcodeDocs) |-> lookup_barcode(gemini_model, request, gen)],
              Outcomes(BarcodeDocs))

\* the handlers below never reach generate_content
Root ==
    Serve(Request("root", NoFile, NoBarcode, <<>>),
          [gen \in {Raises} |-> root(index_exists)], {})

ApiInfo ==
    Serve(Request("api", NoFile, NoBarcode, p_api),
          [gen \in {Raises} |-> api_info], {})

HealthCheck ==
    Serve(Request("health", NoFile, NoBarcode, p_health),
          [gen \in {Raises} |-> health_check(gemini_model)], {})

\* the catch-all sees the GET paths no earlier route answers
ServeFrontend ==
    \E full_path \in Paths \ SpecificGetRoutes :
        Serve(Request("frontend", NoFile, NoBarcode, full_path),
              [gen \in {Raises} |-> serve_frontend(full_path, index_exists)], {})

\* the response is sent; the request-scoped objects are discarded, and a 500
\* is remembered in the history
Complete ==
    /\ pc = "responded"
    /\ pc' = "idle"
    /\ req' = NoReq
    /\ call' = NoCall
    /\ resp' = NoResp
    /\ last_failure' =
         IF resp.status = 500
         THEN [route |-> req.route, provider |-> (call.kind = "raises"),
               error_code |-> ErrorCode(resp)]
         ELSE last_failure
    /\ UNCHANGED <<phase, api_key, configure_raised, gemini_model, index_exists>>

Next ==
    \/ Startup
    \/ Shutdown
    \/ IdentifyImage
    \/ ParseDataTag
    \/ LookupBarcode
    \/ Root
    \/ ApiInfo
    \/ HealthCheck
    \/ ServeFrontend
    \/ Complete

Spec == Init /\ [][Next]_vars

(***************************************************************************)
(* Properties.                                                             *)
(***************************************************************************)
AIRoutes == {"identify", "data_tag", "barcode"}
ImageRoutes == {"identify", "data_tag"}
Responded(routes) == pc = "responded" /\ req.route \in routes

\* the declared content type starts with "image/"
DeclaresImage(file) ==
    file.content_type.present /\ StartsWith(file.content_type.text, s_image)

\* C1: while the handle is unset, a request to any of the three AI-backed
\* routes is answered 503 with error_code GEMINI_NOT_CONFIGURED and no call to
\* the model, whatever the upload or the barcode is.
C1_NotConfiguredWins ==
    (Responded(AIRoutes) /\ gemini_model = None) =>
        /\ resp.status = 503
        /\ ErrorCode(resp) = "GEMINI_NOT_CONFIGURED"
        /\ Calls(resp) = 0
        /\ call.kind = "none"

\* an unconfigured server answering an upload that input validation would reject
C1_Witness ==
    /\ Responded({"data_tag"})
    /\ gemini_model = None
    /\ ~DeclaresImage(req.file)
    /\ resp.status = 503

\* C2: with the client configured, an empty upload declared as an image is
\* answered 400 with error_code EMPTY_FILE on both image routes, without a
\* model call.
C2_EmptyUploadCode ==
    (/\ Responded(ImageRoutes)
     /\ gemini_model # None
     /\ DeclaresImage(req.file)
     /\ req.file.readable
     /\ req.file.data = <<>>) =>
        /\ resp.status = 400
        /\ ErrorCode(resp) = "EMPTY_FILE"
        /\ Calls(resp) = 0

\* C3: with the client configured, an upload whose content type is missing or
\* does not start with "image/" is answered 400 INVALID_FILE_TYPE on both
\* image routes before the body is read, decoded or sent to the model,
\* whatever the body is.
C3_FileTypeFirst ==
    (/\ Responded(ImageRoutes)
     /\ gemini_model # None
     /\ ~DeclaresImage(req.file)) =>
        /\ resp.status = 400
        /\ ErrorCode(resp) = "INVALID_FILE_TYPE"
        /\ resp.effects = <<>>
        /\ call.kind = "none"

\* a readable, decodable image declared under a non-image type is rejected
C3_Witness ==
    /\ Responded({"identify"})
    /\ gemini_model # None
    /\ req.file.content_type.present
    /\ req.file.content_type.text = ct_upper
    /\ req.file.readable
    /\ Image_open(req.file.data) = "image"
    /\ ErrorCode(resp) = "INVALID_FILE_TYPE"

\* C4: on the identification route, model text that is not valid JSON gives a
\* success response with no items whose raw_response is the first
\* min(500, length) characters of that text.
C4_InvalidJsonIdentify ==
    (/\ Responded({"identify"})
     /\ call.kind = "text"
     /\ call.doc.t = "invalid") =>
        /\ resp.status = 200
        /\ resp.kind = "ItemIdentificationResponse"
        /\ resp.body.items = <<>>
        /\ resp.body.raw_response.of = call
        /\ resp.body.raw_response.chars = (IF call.len <= 500 THEN call.len ELSE 500)

\* malformed text longer than 500 characters was cut to 500
C4_Witness ==
    /\ Responded({"identify"})
    /\ call.kind = "text"
    /\ call.doc.t = "invalid"
    /\ call.len > 500
    /\ resp.status = 200
    /\ resp.body.raw_response.chars = 500

\* every field of a response body but raw_response
Descriptive(body) == DOMAIN body \ {"raw_response"}

\* C5: on the data-tag and barcode routes, model text that is malformed JSON
\* gives a success response whose descriptive fields are all absent, with the
\* first 500 characters of the text, never an error response.
C5_InvalidJsonDegrades ==
    (/\ Responded({"data_tag", "barcode"})
     /\ call.kind = "text"
     /\ call.doc.t = "invalid") =>
        /\ resp.status = 200
        /\ resp.kind # "error"
        /\ \A k \in Descriptive(resp.body) : resp.body[k] \in {JNull, JBool(FALSE)}
        /\ resp.body.raw_response.of = call
        /\ resp.body.raw_response.chars = (IF call.len <= 500 THEN call.len ELSE 500)

\* the path starts with one of the eight literal prefixes
HasApiPrefix(path) ==
    \E p \in {p_health, p_nesventory, p_parse_data_tag, p_lookup_barcode, p_docs, p_redoc,
              p_openapi_json, p_api} : StartsWith(path, p)

\* C6: the catch-all answers a path under one of the eight prefixes with a
\* 404 and never with the frontend HTML, whether or not the bundle exists; any
\* other path gets the entry HTML when the bundle exists and a 404 "Frontend
\* not built" when it does not.
C6_CatchAll ==
    Responded({"frontend"}) =>
        IF HasApiPrefix(req.full_path)
        THEN resp.status = 404 /\ resp.kind # "FileResponse"
        ELSE IF index_exists
        THEN resp.status = 200 /\ resp.kind = "FileResponse" /\ resp.body = IndexHtml
        ELSE resp.status = 404 /\ resp.detail = Plain("Frontend not built")

\* with the bundle present, a path under the health prefix that no route
\* answers was refused
C6_Witness ==
    /\ Responded({"frontend"})
    /\ index_exists
    /\ req.full_path = p_health \o <<"z">>
    /\ resp.status = 404

\* C7: with the client configured, a non-empty upload declared as an image
\* whose bytes do not decode is answered with a 4xx on both image routes,
\* without a model call.
C7_UndecodableIs400 ==
    (/\ Responded(ImageRoutes)
     /\ gemini_model # None
     /\ DeclaresImage(req.file)
     /\ req.file.readable
     /\ req.file.data # <<>>
     /\ Image_open(req.file.data) # "image") =>
        /\ resp.status \in 400..499
        /\ Calls(resp) = 0

\* C8: every error response of the three AI-backed routes and of the
\* catch-all carries a detail with the fields error, message and error_code.
C8_StructuredErrors ==
    (Responded(AIRoutes \cup {"frontend"}) /\ resp.kind = "error") =>
        /\ resp.detail.t = "dict"
        /\ {"error", "message", "error_code"} \subseteq DOMAIN resp.detail.v

\* C9: on each AI-backed route, the 500 for a failed model call carries an
\* error code that the route reports for no other failure.
C9_ProviderCodeDistinct ==
    (/\ Responded(AIRoutes)
     /\ resp.status = 500
     /\ last_failure.route = req.route
     /\ last_failure.provider # (call.kind = "raises")) =>
        ErrorCode(resp) # last_failure.error_code

\* key k of object o is missing, or holds a value of one of the kinds
Holds(o, k, kinds) == k \in DOMAIN o.v => o.v[k].t \in kinds

\* an item object as the identification prompt asks for it
ExpectedItem(item) ==
    /\ item.t = "obj"
    /\ Holds(item, "name", {"str"})
    /\ \A k \in ItemStrFields : Holds(item, k, {"str", "null"})
    /\ \A k \in ItemFloatFields : Holds(item, k, {"num", "null"})

\* a reply of the shape the route's prompt asks for
ExpectedShape(route, doc) ==
    /\ doc.t = "obj"
    /\ CASE route = "identify" ->
              /\ "items" \in DOMAIN doc.v
              /\ doc.v.items.t = "list"
              /\ \A i \in 1..Len(doc.v.items.v) : ExpectedItem(doc.v.items.v[i])
         [] route = "data_tag" ->
              /\ \A k \in DataTagStrFields : Holds(doc, k, {"str", "null"})
              /\ Holds(doc, "estimated_value", {"num", "null"})
              /\ Holds(doc, "additional_info", {"obj", "null"})
         [] route = "barcode" ->
              /\ Holds(doc, "found", {"bool"})
              /\ \A k \in BarcodeStrFields : Holds(doc, k, {"str", "null"})
              /\ Holds(doc, "estimated_value", {"num", "null"})

\* the fields of target are exactly the recognized ones; each holds the
\* source's value for its key, and a missing key reads as its default if it
\* has one and as null otherwise
Projects(target, fields, source, defaults) ==
    /\ DOMAIN target \ {"raw_response"} = fields
    /\ \A k \in fields :
         IF k \in DOMAIN source.v THEN target[k] = source.v[k]
         ELSE IF k \in DOMAIN defaults THEN target[k] = defaults[k]
         ELSE target[k] = JNull /\ target[k] \notin {JStr(""), JNum("0")}

\* C10: for model text that is a JSON object of the expected shape, each
\* route answers with the recognized keys' values unchanged under the same
\* names, unrecognized keys dropped, the items in their order, and null for
\* every missing optional key; only a missing name becomes "Unknown Item" and
\* a missing found becomes false.
C10_Projection ==
    (/\ Responded(AIRoutes)
     /\ call.kind = "text"
     /\ call.doc.t # "invalid"
     /\ ExpectedShape(req.route, call.doc)) =>
        /\ resp.status = 200
        /\ CASE req.route = "identify" ->
                  LET source == call.doc.v.items.v
                  IN  /\ Len(resp.body.items) = Len(source)
                      /\ \A i \in 1..Len(source) :
                           Projects(resp.body.items[i],
                                    {"name", "description", "brand", "item_number",
                                     "model_number", "retired_status", "estimated_value",
                                     "confidence", "estimation_date"},
                                    source[i], [name |-> JStr("Unknown Item")])
             [] req.route = "data_tag" ->
                  Projects(resp.body,
                           {"manufacturer", "brand", "model_number", "serial_number",
                            "production_date", "estimated_value", "additional_info"},
                           call.doc, EmptyDict)
             [] req.route = "barcode" ->
                  Projects(resp.body,
                           {"found", "name", "description", "brand", "model_number",
                            "estimated_value", "estimation_date", "category"},
                           call.doc, [found |-> JBool(FALSE)])

\* two different items, one with an unrecognized key and one without a name,
\* came back in the order the model gave them
C10_Witness ==
    /\ Responded({"identify"})
    /\ call.kind = "text"
    /\ call.doc.t = "obj"
    /\ ExpectedShape("identify", call.doc)
    /\ call.doc.v.items.v = <<it_full, it_nameless>>
    /\ resp.status = 200
    /\ Len(resp.body.items) = 2
    /\ resp.body.items[2].name = JStr("Unknown Item")

\* a step taken while the server is up: after startup and not the shutdown
WhileRunning == phase = "running" /\ phase' = "running"

\* C11: once startup is over the handle is set exactly when GEMINI_API_KEY
\* was set (to a non-empty value) and the configuration did not raise, so a
\* raising configuration leaves a running server with the handle unset; no
\* step between startup and shutdown changes the handle, whichever route is
\* served and however it ends; after shutdown the handle is unset; and GET
\* /health answers 200 with gemini_configured telling whether the handle is
\* set.
C11_HandleLifecycle ==
    /\ [](phase = "running" =>
            (gemini_model # None <=> (KeySet(api_key) /\ ~configure_raised)))
    /\ [](phase = "stopped" => gemini_model = None)
    /\ [](Responded({"health"}) =>
            /\ resp.status = 200
            /\ resp.body.gemini_configured = (gemini_model # None))
    /\ [][WhileRunning => gemini_model' = gemini_model]_vars

\* the key was set, the configuration raised, and the running server reports
\* itself healthy and not configured
C11_Witness ==
    /\ Responded({"health"})
    /\ phase = "running"
    /\ api_key = "key"
    /\ configure_raised
    /\ gemini_model = None
    /\ resp.status = 200
    /\ resp.body.gemini_configured = FALSE

\* C12: on the identification route, whenever the model call returned text
\* the request ends in a success response, whatever the text is, and
\* GEMINI_API_ERROR is reported only for a model call that failed.
C12_DecodeNeverFails ==
    Responded({"identify"}) =>
        /\ call.kind = "text" => resp.status = 200
        /\ ErrorCode(resp) = "GEMINI_API_ERROR" => call.kind = "raises"

====
